---- MODULE Spec2Model ----
(***************************************************************************)
(* The activation layers of megengine/module/activation.py: Softmax,       *)
(* Sigmoid, SiLU, GELU, ReLU, PReLU, LeakyReLU and ELU.  One layer         *)
(* instance is constructed, then called (forward) with input tensors and   *)
(* has its attributes replaced from outside (an optimizer step, a plain    *)
(* attribute assignment).                                                  *)
(*                                                                         *)
(* Numbers are exact decimals counted in units of 1/Unit (0.25 is 250); a  *)
(* product of two such numbers is counted in units of 1/(Unit*Unit).  The  *)
(* float32 format in which elements are stored is outside the model.       *)
(* A tensor is its shape and its elements in row-major order.              *)
(***************************************************************************)
EXTENDS Integers, Sequences, FiniteSets, TLC

VARIABLES
    ctor,   \* the constructor call that made the layer: class and arguments
    made,   \* the layer as the constructor returned it
    self,   \* the layer now
    call,   \* the forward call that has just returned, NoCall otherwise
    last,   \* how the most recent forward call ended, "none" before the first
    ref     \* an earlier forward call kept for comparison, NoCall if none is

vars == <<ctor, made, self, call, last, ref>>

\* ------------------------------------------------------------------ numbers

Unit == 1000

DefaultNumParameters == 1
DefaultInit == 250
DefaultNegativeSlope == 10
DefaultAlpha == 1000
\* The axis PReLU.forward reads from the input's shape (0-based, as in Python).
ChannelAxis == 1

\* Bounds of the model.
MaxChannels == 3
MaxLen == 2

Max(a, b) == IF a >= b THEN a ELSE b
Min(a, b) == IF a <= b THEN a ELSE b

\* Python's None and a present value.
None == <<>>
Some(v) == <<v>>

\* A keyword argument bound to its default when the call leaves it out.
Arg(opt, default) == IF opt = None THEN default ELSE opt[1]

\* ------------------------------------------------------------------ tensors

RECURSIVE Prod(_)
Prod(s) == IF s = <<>> THEN 1 ELSE Head(s) * Prod(Tail(s))

Size(shape) == Prod(shape)

Tensor(shape, data) == [shape |-> shape, data |-> data]

\* np.full(shape, fill_value, dtype): every element is fill_value.
Full(shape, v) == Tensor(shape, [i \in 1..Size(shape) |-> v])

\* A tensor made from a flat Python list.
FromList(l) == Tensor(<<Len(l)>>, l)

\* Parameter(data=...): the trainable tensor holding the given data.
Parameter(data) == data

\* numpy broadcasting of two shapes.
Pad(s, r) ==
    [i \in 1..r |-> IF i <= r - Len(s) THEN 1 ELSE s[i - (r - Len(s))]]

Compatible(s, t) ==
    LET r == Max(Len(s), Len(t))
    IN \A i \in 1..r :
          \/ Pad(s, r)[i] = Pad(t, r)[i]
          \/ Pad(s, r)[i] = 1
          \/ Pad(t, r)[i] = 1

BroadcastShape(s, t) ==
    LET r == Max(Len(s), Len(t))
    IN [i \in 1..r |-> IF Pad(s, r)[i] = 1 THEN Pad(t, r)[i] ELSE Pad(s, r)[i]]

Stride(s, d) == Prod(SubSeq(s, d + 1, Len(s)))

\* The element of operand t that takes part in element k (from 1, row-major)
\* of a result of shape out.
RECURSIVE Offset(_, _, _, _)
Offset(p, out, k, d) ==
    IF d > Len(out) THEN 0
    ELSE LET idx == ((k - 1) \div Stride(out, d)) % out[d]
         IN (IF p[d] = 1 THEN 0 ELSE idx * Stride(p, d)) + Offset(p, out, k, d + 1)

At(t, out, k) == t.data[1 + Offset(Pad(t.shape, Len(out)), out, k, 1)]

\* --------------------------------------------------- functional operators

Returned(v) == [raised |-> FALSE, value |-> v]
Raised(e) == [raised |-> TRUE, exc |-> e]

\* The result of an operator this model does not compute: the application.
Term(op, args) == [op |-> op, args |-> args]

softmax(inp, axis) ==
    IF axis # None /\ ~(-Len(inp.shape) <= axis[1] /\ axis[1] < Len(inp.shape))
    THEN Raised([type |-> "ValueError", from |-> "softmax"])
    ELSE Returned(Term("softmax", <<inp, axis>>))

sigmoid(x) == Returned(Term("sigmoid", <<x>>))
silu(x) == Returned(Term("silu", <<x>>))
gelu(x) == Returned(Term("gelu", <<x>>))
relu(x) == Returned(Term("relu", <<x>>))
leaky_relu(inp, negative_slope) == Returned(Term("leaky_relu", <<inp, negative_slope>>))
elu(inp, alpha) == Returned(Term("elu", <<inp, alpha>>))

\* max(x, 0) + a * min(x, 0), in units of 1/(Unit*Unit).
PReLUElement(x, a) == Unit * Max(x, 0) + a * Min(x, 0)

prelu(inp, weight) ==
    IF ~Compatible(inp.shape, weight.shape)
    THEN Raised([type |-> "ValueError", from |-> "prelu"])
    ELSE LET out == BroadcastShape(inp.shape, weight.shape)
         IN Returned(Tensor(out,
                [k \in 1..Size(out) |->
                    PReLUElement(At(inp, out, k), At(weight, out, k))]))

\* ------------------------------------------------------------ constructors

\* Module.__init__ of a layer that has no constructor of its own.
Module_init(cls) == [cls |-> cls]

Softmax_init(axis) == [cls |-> "Softmax", axis |-> axis]

\* PReLU.__init__ with the branch taken from num_parameters >= 1.
PReLU_init_ge1(num_parameters, init) ==
    [cls |-> "PReLU",
     num_parameters |-> num_parameters,
     weight |-> IF num_parameters >= 1
                THEN Parameter(Full(<<1, num_parameters, 1, 1>>, init))
                ELSE Parameter(FromList(<<init>>))]

\* PReLU.__init__ with the shared weight filled with the default, not init.
PReLU_init_defaultfill(num_parameters, init) ==
    [cls |-> "PReLU",
     num_parameters |-> num_parameters,
     weight |-> IF num_parameters > 1
                THEN Parameter(Full(<<1, num_parameters, 1, 1>>, init))
                ELSE Parameter(FromList(<<DefaultInit>>))]

\* PReLU.__init__ storing the number of elements it allocated.
PReLU_init_clamp(num_parameters, init) ==
    [cls |-> "PReLU",
     num_parameters |-> Max(num_parameters, 1),
     weight |-> IF num_parameters > 1
                THEN Parameter(Full(<<1, num_parameters, 1, 1>>, init))
                ELSE Parameter(FromList(<<init>>))]

PReLU_init(num_parameters, init) ==
    [cls |-> "PReLU",
     num_parameters |-> num_parameters,
     weight |-> IF num_parameters > 1
                THEN Parameter(Full(<<1, num_parameters, 1, 1>>, init))
                ELSE Parameter(FromList(<<init>>))]

LeakyReLU_init(negative_slope) ==
    [cls |-> "LeakyReLU", negative_slope |-> negative_slope]

ELU_init(alpha) == [cls |-> "ELU", alpha |-> alpha]

\* The constructor call c: an argument the call leaves out takes its default.
New(c) ==
    CASE c.cls = "Softmax" -> Softmax_init(Arg(c.axis, None))
      [] c.cls = "PReLU" ->
            PReLU_init(Arg(c.num_parameters, DefaultNumParameters),
                       Arg(c.init, DefaultInit))
      [] c.cls = "LeakyReLU" ->
            LeakyReLU_init(Arg(c.negative_slope, DefaultNegativeSlope))
      [] c.cls = "ELU" -> ELU_init(Arg(c.alpha, DefaultAlpha))
      [] OTHER -> Module_init(c.cls)

\* ----------------------------------------------------------------- forward

\* The functional operator named op applied to args.
Functional(op, args) ==
    CASE op = "softmax" -> softmax(args[1], args[2])
      [] op = "sigmoid" -> sigmoid(args[1])
      [] op = "silu" -> silu(args[1])
      [] op = "gelu" -> gelu(args[1])
      [] op = "relu" -> relu(args[1])
      [] op = "prelu" -> prelu(args[1], args[2])
      [] op = "leaky_relu" -> leaky_relu(args[1], args[2])
      [] op = "elu" -> elu(args[1], args[2])

\* `return op(*args)`: one invocation; its value is returned, its error
\* propagates.  A forward call ends with the layer and the input as the call
\* leaves them, the operators it invoked, its outcome and the number of times
\* it read inputs.shape[1].
Invoke(layer, inputs, op, args, reads) ==
    [self |-> layer, inputs |-> inputs, ops |-> <<Term(op, args)>>,
     out |-> Functional(op, args), reads |-> reads]

\* An exception raised by forward itself: no operator is invoked.
Throw(layer, inputs, exc, reads) ==
    [self |-> layer, inputs |-> inputs, ops |-> <<>>,
     out |-> Raised(exc), reads |-> reads]

AssertionError == [type |-> "AssertionError", msg |-> "invalid weight's shape"]
IndexError == [type |-> "IndexError", msg |-> "tuple index out of range"]

Softmax_forward(layer, inputs) ==
    Invoke(layer, inputs, "softmax", <<inputs, layer.axis>>, 0)

Sigmoid_forward(layer, inputs) == Invoke(layer, inputs, "sigmoid", <<inputs>>, 0)

SiLU_forward(layer, inputs) == Invoke(layer, inputs, "silu", <<inputs>>, 0)

GELU_forward(layer, inputs) == Invoke(layer, inputs, "gelu", <<inputs>>, 0)

ReLU_forward(layer, x) == Invoke(layer, x, "relu", <<x>>, 0)

\* The assert's condition accepting a (1, K, 1, 1) weight for any K.
ShapeCheck_anyChannel(weight, inputs) ==
    IF weight.shape = <<1>> THEN [reads |-> 0, result |-> "pass"]
    ELSE IF Len(inputs.shape) <= ChannelAxis
         THEN [reads |-> 1, result |-> "IndexError"]
    ELSE IF /\ Len(weight.shape) = 4
            /\ weight.shape[1] = 1 /\ weight.shape[3] = 1 /\ weight.shape[4] = 1
         THEN [reads |-> 1, result |-> "pass"]
    ELSE [reads |-> 1, result |-> "fail"]

\* The assert's condition with both operands evaluated before they are joined.
ShapeCheck_eager(weight, inputs) ==
    IF Len(inputs.shape) <= ChannelAxis
    THEN [reads |-> 1, result |-> "IndexError"]
    ELSE IF \/ weight.shape = <<1>>
            \/ weight.shape = <<1, inputs.shape[ChannelAxis + 1], 1, 1>>
         THEN [reads |-> 1, result |-> "pass"]
    ELSE [reads |-> 1, result |-> "fail"]

\* The condition of PReLU.forward's assert, evaluated left to right: `or`
\* stops at a true left operand, and inputs.shape[1] raises IndexError when
\* the input has no axis 1.  int() of a size is that size.  The assert is
\* executed (the interpreter does not run with -O).
ShapeCheck(weight, inputs) ==
    IF weight.shape = <<1>> THEN [reads |-> 0, result |-> "pass"]
    ELSE IF Len(inputs.shape) <= ChannelAxis
         THEN [reads |-> 1, result |-> "IndexError"]
    ELSE IF weight.shape = <<1, inputs.shape[ChannelAxis + 1], 1, 1>>
         THEN [reads |-> 1, result |-> "pass"]
    ELSE [reads |-> 1, result |-> "fail"]

\* PReLU.forward skipping the check once a call has gone through.
PReLU_forward_cached(layer, inputs) ==
    LET chk == IF last = "returned" THEN [reads |-> 0, result |-> "pass"]
               ELSE ShapeCheck(layer.weight, inputs)
    IN CASE chk.result = "IndexError" -> Throw(layer, inputs, IndexError, chk.reads)
         [] chk.result = "fail" -> Throw(layer, inputs, AssertionError, chk.reads)
         [] chk.result = "pass" ->
               Invoke(layer, inputs, "prelu", <<inputs, layer.weight>>, chk.reads)

\* PReLU.forward storing a shared weight expanded to the input's channels.
PReLU_forward_reshape(layer, inputs) ==
    LET chk == ShapeCheck(layer.weight, inputs)
        w == IF layer.weight.shape = <<1>> /\ Len(inputs.shape) > ChannelAxis
             THEN Full(<<1, inputs.shape[ChannelAxis + 1], 1, 1>>, layer.weight.data[1])
             ELSE layer.weight
    IN CASE chk.result = "IndexError" -> Throw(layer, inputs, IndexError, chk.reads)
         [] chk.result = "fail" -> Throw(layer, inputs, AssertionError, chk.reads)
         [] chk.result = "pass" ->
               Invoke([layer EXCEPT !.weight = w], inputs, "prelu",
                      <<inputs, w>>, chk.reads)

\* PReLU.forward using the weight the constructor allocated.
PReLU_forward_stale(layer, inputs) ==
    LET chk == ShapeCheck(made.weight, inputs)
    IN CASE chk.result = "IndexError" -> Throw(layer, inputs, IndexError, chk.reads)
         [] chk.result = "fail" -> Throw(layer, inputs, AssertionError, chk.reads)
         [] chk.result = "pass" ->
               Invoke(layer, inputs, "prelu", <<inputs, made.weight>>, chk.reads)

PReLU_forward(layer, inputs) ==
    LET chk == ShapeCheck(layer.weight, inputs)
    IN CASE chk.result = "IndexError" -> Throw(layer, inputs, IndexError, chk.reads)
         [] chk.result = "fail" -> Throw(layer, inputs, AssertionError, chk.reads)
         [] chk.result = "pass" ->
               Invoke(layer, inputs, "prelu", <<inputs, layer.weight>>, chk.reads)

\* LeakyReLU.forward passing the default slope.
LeakyReLU_forward_default(layer, inputs) ==
    Invoke(layer, inputs, "leaky_relu", <<inputs, DefaultNegativeSlope>>, 0)

LeakyReLU_forward(layer, inputs) ==
    Invoke(layer, inputs, "leaky_relu", <<inputs, layer.negative_slope>>, 0)

ELU_forward(layer, inputs) ==
    Invoke(layer, inputs, "elu", <<inputs, layer.alpha>>, 0)

\* layer(inputs): the forward of the layer's class.
forward(layer, inputs) ==
    CASE layer.cls = "Softmax" -> Softmax_forward(layer, inputs)
      [] layer.cls = "Sigmoid" -> Sigmoid_forward(layer, inputs)
      [] layer.cls = "SiLU" -> SiLU_forward(layer, inputs)
      [] layer.cls = "GELU" -> GELU_forward(layer, inputs)
      [] layer.cls = "ReLU" -> ReLU_forward(layer, inputs)
      [] layer.cls = "PReLU" -> PReLU_forward(layer, inputs)
      [] layer.cls = "LeakyReLU" -> LeakyReLU_forward(layer, inputs)
      [] layer.cls = "ELU" -> ELU_forward(layer, inputs)

\* How a call ended: forward raised before invoking an operator, the operator
\* raised, or the operator's value was returned.
Ended(r) ==
    IF r.ops = <<>> THEN "rejected"
    ELSE IF r.out.raised THEN "raised" ELSE "returned"

\* ------------------------------------------------------------------ inputs

PlainClasses == {"Sigmoid", "SiLU", "GELU", "ReLU"}

AxisValues == {None} \cup {Some(a) : a \in -1..2}
SlopeValues == {DefaultNegativeSlope, 200}
AlphaValues == {DefaultAlpha, 500}
InitValues == {100}
NumParameters == -1..MaxChannels

Opt(S) == {None} \cup {Some(v) : v \in S}

\* The tensors a caller passes: vectors of up to MaxLen elements, and tensors
\* of no, two, three and four axes filled with one value.
InputValues == {-1200, 0, 2700}
FillValues == {-1200, 2700}
HigherShapes ==
    {<<>>, <<MaxChannels, 2, 1>>}
        \cup {<<1, c>> : c \in 1..MaxChannels}
        \cup {<<1, c, 1, 1>> : c \in 1..MaxChannels}
\* The input of the PReLU docstring example.
DocInput == FromList(<<-1200, -3700, 2700>>)
InputTensors ==
    {DocInput}
        \cup UNION {{FromList(d) : d \in [1..n -> InputValues]} : n \in 1..MaxLen}
        \cup {Full(s, v) : s \in HigherShapes, v \in FillValues}

\* The weights an external procedure installs: the two legal forms, and
\* shapes that are neither.
WeightValues == {-500}
WeightShapes ==
    {<<1>>, <<2>>, <<2, 1, 1, 1>>} \cup {<<1, c, 1, 1>> : c \in 1..MaxChannels}
Weights == {Full(s, v) : s \in WeightShapes, v \in WeightValues}

\* ------------------------------------------------------------ state machine

NoCall == [none |-> TRUE]

Constructed(c) ==
    /\ ctor = c
    /\ made = New(c)
    /\ self = New(c)
    /\ call = NoCall
    /\ last = "none"
    /\ ref = NoCall

Init ==
    \/ \E a \in Opt(AxisValues) : Constructed([cls |-> "Softmax", axis |-> a])
    \/ \E k \in PlainClasses : Constructed([cls |-> k])
    \/ \E n \in Opt(NumParameters), v \in Opt(InitValues) :
          Constructed([cls |-> "PReLU", num_parameters |-> n, init |-> v])
    \/ \E s \in Opt(SlopeValues) :
          Constructed([cls |-> "LeakyReLU", negative_slope |-> s])
    \/ \E a \in Opt(AlphaValues) : Constructed([cls |-> "ELU", alpha |-> a])

\* The caller calls the layer with the tensor x.
Calls(x) ==
    \E r \in {forward(self, x)} :
        /\ self' = r.self
        /\ call' = [self |-> self, inputs |-> x, after |-> r.inputs,
                    ops |-> r.ops, out |-> r.out, reads |-> r.reads,
                    before |-> last]
        /\ last' = Ended(r)
        /\ UNCHANGED <<ctor, made>>

Forward ==
    /\ \E x \in InputTensors : Calls(x)
    /\ UNCHANGED ref

\* Writes from outside the layer: an optimizer step or a replacement of the
\* weight, an assignment to a configuration attribute.
SetWeight ==
    /\ self.cls = "PReLU"
    /\ \E w \in Weights : self' = [self EXCEPT !.weight = w]
    /\ call' = NoCall
    /\ UNCHANGED <<ctor, made, last, ref>>

SetAxis ==
    /\ self.cls = "Softmax"
    /\ \E a \in AxisValues : self' = [self EXCEPT !.axis = a]
    /\ call' = NoCall
    /\ UNCHANGED <<ctor, made, last, ref>>

SetNegativeSlope ==
    /\ self.cls = "LeakyReLU"
    /\ \E s \in SlopeValues : self' = [self EXCEPT !.negative_slope = s]
    /\ call' = NoCall
    /\ UNCHANGED <<ctor, made, last, ref>>

SetAlpha ==
    /\ self.cls = "ELU"
    /\ \E a \in AlphaValues : self' = [self EXCEPT !.alpha = a]
    /\ call' = NoCall
    /\ UNCHANGED <<ctor, made, last, ref>>

Next == Forward \/ SetWeight \/ SetAxis \/ SetNegativeSlope \/ SetAlpha

Spec == Init /\ [][Next]_vars

\* The same layer under a caller that keeps some of its calls to compare later
\* calls with, over a smaller set of tensors.
ProbeTensors ==
    {Full(s, -1200) : s \in {<<2>>, <<1, 2>>, <<1, 2, 1, 1>>, <<1, MaxChannels, 1, 1>>}}

Probe ==
    /\ \E x \in ProbeTensors : Calls(x)
    /\ ref' \in {ref, call'}

NextPure == Probe \/ SetWeight \/ SetAxis \/ SetNegativeSlope \/ SetAlpha

SpecPure == Init /\ [][NextPure]_vars

\* -------------------------------------------------------------- properties

Called == call # NoCall
PReLUCalled == Called /\ call.self.cls = "PReLU"

\* The weight w has one of the two legal forms for the input x: (1,), or
\* (1, C, 1, 1) with C the size of x's axis 1.
Legal(w, x) ==
    \/ w.shape = <<1>>
    \/ Len(x.shape) >= 2 /\ w.shape = <<1, x.shape[2], 1, 1>>

\* The call reached prelu(inputs, weight) with the weight stored at the call.
ReachedPReLU ==
    call.ops = <<Term("prelu", <<call.inputs, call.self.weight>>)>>

C2_InitialWeight ==
    ctor.cls = "PReLU" =>
        /\ (ctor.num_parameters # None /\ ctor.init # None
                /\ ctor.num_parameters[1] >= 1) =>
              /\ made.weight.shape =
                    (IF ctor.num_parameters[1] = 1 THEN <<1>>
                     ELSE <<1, ctor.num_parameters[1], 1, 1>>)
              /\ Len(made.weight.data) = Size(made.weight.shape)
              /\ \A i \in DOMAIN made.weight.data :
                    made.weight.data[i] = ctor.init[1]
        /\ (ctor.num_parameters = None /\ ctor.init = None) =>
              made.weight = [shape |-> <<1>>, data |-> <<250>>]

\* PReLU(MaxChannels, 0.1) was constructed, and is in use.
C2_Witness ==
    /\ ctor = [cls |-> "PReLU", num_parameters |-> Some(MaxChannels),
               init |-> Some(100)]
    /\ made.weight.shape = <<1, MaxChannels, 1, 1>>
    /\ self = made
    /\ Called

\* C3: every PReLU forward call checks the weight stored at that call against
\* that call's input: the call reaches prelu(inputs, weight) exactly when the
\* weight's shape is (1,) or (1, C, 1, 1) for the input's channel count C,
\* however the calls before it ended.
C3_CheckedOnEveryCall ==
    PReLUCalled => (ReachedPReLU <=> Legal(call.self.weight, call.inputs))

\* A call was rejected right after a call on the same layer had returned.
C3_Witness ==
    /\ PReLUCalled
    /\ call.before = "returned"
    /\ call.self.weight # made.weight
    /\ ~Legal(call.self.weight, call.inputs)
    /\ call.ops = <<>>

\* C4: a forward call, whether it returns or raises, leaves the layer's
\* attributes (configuration, weight) and the input tensor as they were; the
\* layer changes only in steps taken from outside.
C4_ForwardFrame ==
    [][call' # NoCall =>
          /\ self' = self
          /\ call'.self = self
          /\ call'.after = call'.inputs]_vars

\* A PReLU whose weight was replaced from outside has made a call that raised.
C4_Witness ==
    /\ PReLUCalled
    /\ call.out.raised
    /\ self = call.self
    /\ self.weight # made.weight
    /\ call.after = call.inputs

\* C5: a forward call that fails ends either with PReLU's assertion failure or
\* with the error of the operator it delegated to, unchanged; it fails in no
\* other way, also when an input with fewer than two axes meets a
\* (1, C, 1, 1) weight.
C5_TwoErrorKinds ==
    (Called /\ call.out.raised) =>
        \/ /\ call.self.cls = "PReLU"
           /\ call.out.exc = AssertionError
        \/ /\ Len(call.ops) = 1
           /\ call.out = Functional(call.ops[1].op, call.ops[1].args)

\* The operator each layer delegates to, with the layer's stored attributes.
Delegation(layer, x) ==
    CASE layer.cls = "Softmax" -> Term("softmax", <<x, layer.axis>>)
      [] layer.cls = "Sigmoid" -> Term("sigmoid", <<x>>)
      [] layer.cls = "SiLU" -> Term("silu", <<x>>)
      [] layer.cls = "GELU" -> Term("gelu", <<x>>)
      [] layer.cls = "ReLU" -> Term("relu", <<x>>)
      [] layer.cls = "PReLU" -> Term("prelu", <<x, layer.weight>>)
      [] layer.cls = "LeakyReLU" -> Term("leaky_relu", <<x, layer.negative_slope>>)
      [] layer.cls = "ELU" -> Term("elu", <<x, layer.alpha>>)

\* C6: a forward call (of PReLU: one that passes the shape check) invokes the
\* layer's operator once, with the input and the attributes stored at the
\* call, and ends as that invocation ends; a constructor called without
\* arguments stores axis None, negative_slope 0.01, alpha 1.0.
C6_Delegates ==
    /\ (Called /\ (call.self.cls = "PReLU" => Legal(call.self.weight, call.inputs)))
          => /\ call.ops = <<Delegation(call.self, call.inputs)>>
             /\ call.out = Functional(call.ops[1].op, call.ops[1].args)
    /\ (ctor.cls = "Softmax" /\ ctor.axis = None) => made.axis = None
    /\ (ctor.cls = "LeakyReLU" /\ ctor.negative_slope = None)
          => made.negative_slope = 10
    /\ (ctor.cls = "ELU" /\ ctor.alpha = None) => made.alpha = 1000

\* A LeakyReLU whose slope was set from outside has returned from a call.
C6_Witness ==
    /\ Called
    /\ self.cls = "LeakyReLU"
    /\ self.negative_slope # made.negative_slope
    /\ call.ops = <<Term("leaky_relu", <<call.inputs, self.negative_slope>>)>>
    /\ ~call.out.raised

\* C7: PReLU(1, a) called with x returns, element by element, x where
\* x >= 0 and a * x where x < 0; PReLU() maps [-1.2, -3.7, 2.7] to
\* [-0.3, -0.925, 2.7].
C7_SharedSlope ==
    (/\ PReLUCalled
     /\ Arg(ctor.num_parameters, 1) = 1
     /\ call.self = made)
        => /\ ~call.out.raised
           /\ DOMAIN call.out.value.data = DOMAIN call.inputs.data
           /\ \A i \in DOMAIN call.inputs.data :
                 call.out.value.data[i] =
                    (IF call.inputs.data[i] >= 0
                     THEN 1000 * call.inputs.data[i]
                     ELSE Arg(ctor.init, 250) * call.inputs.data[i])
           /\ (ctor.init = None /\ call.inputs.data = <<-1200, -3700, 2700>>)
                 => call.out.value.data = <<-300000, -925000, 2700000>>

\* PReLU(1, 0.1) has returned from a call with a negative and a positive
\* element.
C7_Witness ==
    /\ PReLUCalled
    /\ ctor.num_parameters = Some(1)
    /\ ctor.init = Some(100)
    /\ call.self = made
    /\ call.inputs.data = <<-1200, 2700>>
    /\ call.out = Returned(Tensor(<<2>>, <<-120000, 2700000>>))

\* C8: the outcome of a forward call is a function of the layer's attributes
\* and the input at the call: a call with the attributes and the input of an
\* earlier call ends as that call ended, whatever happened in between, and a
\* call made after the weight or the configuration was replaced delegates
\* with the replaced value.
C8_Pure ==
    /\ (/\ Called
        /\ ref # NoCall
        /\ call.self = ref.self
        /\ call.inputs = ref.inputs)
          => /\ call.out = ref.out
             /\ call.ops = ref.ops
    /\ (Called /\ Len(call.ops) = 1 /\ call.self.cls = "PReLU")
          => call.ops[1].args[2] = call.self.weight
    /\ (Called /\ call.self.cls = "Softmax") => call.ops[1].args[2] = call.self.axis
    /\ (Called /\ call.self.cls = "LeakyReLU")
          => call.ops[1].args[2] = call.self.negative_slope
    /\ (Called /\ call.self.cls = "ELU") => call.ops[1].args[2] = call.self.alpha

\* A call repeats a kept call, with a replaced weight, after calls that ended
\* differently.
C8_Witness ==
    /\ PReLUCalled
    /\ ref # NoCall
    /\ call.self = ref.self
    /\ call.inputs = ref.inputs
    /\ call.before # ref.before
    /\ ref.before # "none"
    /\ call.self.weight # made.weight
    /\ call.out = ref.out

\* C9: with a weight of shape (1,) a PReLU forward call reaches
\* prelu(inputs, weight) for every input without reading inputs.shape[1];
\* a call reads inputs.shape[1] only when the weight's shape is not (1,).
C9_SharedWeightSkipsRead ==
    PReLUCalled =>
        /\ call.self.weight.shape = <<1>> => (call.reads = 0 /\ ReachedPReLU)
        /\ call.reads > 0 => call.self.weight.shape # <<1>>

\* A one-axis input went through a (1,) weight.
C9_Witness ==
    /\ PReLUCalled
    /\ call.self.weight.shape = <<1>>
    /\ Len(call.inputs.shape) = 1
    /\ call.reads = 0
    /\ ReachedPReLU
    /\ ~call.out.raised

\* C10: PReLU's constructor accepts num_parameters <= 0: it allocates the
\* weight of shape (1,) holding init and stores the given num_parameters, so
\* the field differs from the number of weight elements; the two agree exactly
\* when num_parameters >= 1.
C10_NonPositiveNumParameters ==
    ctor.cls = "PReLU" =>
        /\ made.num_parameters = Arg(ctor.num_parameters, 1)
        /\ made.num_parameters <= 0 =>
              made.weight = [shape |-> <<1>>, data |-> <<Arg(ctor.init, 250)>>]
        /\ (Len(made.weight.data) = made.num_parameters) <=> (made.num_parameters >= 1)

\* PReLU(0, 0.1) was constructed and called.
C10_Witness ==
    /\ ctor = [cls |-> "PReLU", num_parameters |-> Some(0), init |-> Some(100)]
    /\ made.num_parameters = 0
    /\ made.weight.shape = <<1>>
    /\ PReLUCalled
    /\ call.self = made

====
